---- MODULE Spec2Model ----
(***************************************************************************)
(* The request pipeline assembled by create_app() in                       *)
(* src/nodejs_crud_api/src/api/main.py.                                    *)
(*                                                                         *)
(* FastAPI(middleware=middlewares) builds the ASGI stack                   *)
(*   ServerErrorMiddleware(handler = the handler registered for Exception) *)
(*     CORSMiddleware                                                      *)
(*       GZipMiddleware                                                    *)
(*         SecurityHeadersMiddleware                                       *)
(*           RequestLoggingMiddleware                                      *)
(*             JSONSizeLimitMiddleware                                     *)
(*               ExceptionMiddleware(handlers = the other handlers)        *)
(*                 router / endpoint                                       *)
(* Each dispatch() coroutine suspends at `await call_next(request)`, so a  *)
(* stage is two actions: the part before the await and the part after.     *)
(***************************************************************************)
EXTENDS Integers, Sequences, FiniteSets, TLC

(***************************************************************************)
(* Bounds.  The code's limit is 1 MiB (line 119); bodies and the limit are *)
(* scaled down together so that bodies below, at and above the limit occur.*)
(***************************************************************************)
max_bytes == 2
NumReqs == 2

minimum_size == 1000

AllReqs == 1..NumReqs
BodyBytes == {0, 1}
Bodies == UNION {[1..n -> BodyBytes] : n \in 0..(max_bytes + 1)}

VARIABLES
    active,       \* the requests this run serves
    self_max_bytes, \* self.max_bytes of the one JSONSizeLimitMiddleware instance
    pc,           \* pc[r]: where request r is in the stack
    req,          \* req[r]: the request as the client sent it
    stream,       \* stream[r]: the ASGI receive channel, "unread" or "consumed"
    cached,       \* cached[r]: request._body of the size-limit stage's Request
    receive,      \* receive[r]: request._receive, "asgi" or the re-injected body
    handlerBody,  \* handlerBody[r]: what the terminal handler read as the body
    result,       \* result[r]: the response or failure travelling back up
    log,          \* records emitted by logger "middleware", in order
    entered,      \* entered[r]: stages entered, in order
    exited,       \* exited[r]: stages returned from, in order
    raised,       \* raised[r]: the failure the endpoint raised, if any
    outcome,      \* outcome[r]: what the route returned or raised
    delivered,    \* delivered[r]: the response sent to the client
    escaped       \* escaped[r]: the failure re-raised to the server, if any

vars == <<active, self_max_bytes, pc, req, stream, cached, receive, handlerBody,
          result, log, entered, exited, raised, outcome, delivered, escaped>>

----------------------------------------------------------------------------
(* Values *)

\* header values are sequences of one-character strings
APPLICATION_JSON ==
    <<"a","p","p","l","i","c","a","t","i","o","n","/","j","s","o","n">>
TEXT_PLAIN == <<"t","e","x","t","/","p","l","a","i","n">>
CHARSET == <<";"," ","c","h","a","r","s","e","t","=","u","t","f","-","8">>
APPLICATION_JSON_UPPER ==
    <<"A","p","p","l","i","c","a","t","i","o","n","/","J","S","O","N">>

Absent == <<"<absent>">>

ContentTypes ==
    { Absent, APPLICATION_JSON, APPLICATION_JSON \o CHARSET, TEXT_PLAIN,
      APPLICATION_JSON_UPPER }

Methods == {"GET", "POST", "PUT", "PATCH", "DELETE", "OPTIONS"}
Paths == {"/", "/items"}

\* origin: an Origin header is present; acrm: so is
\* Access-Control-Request-Method, which clients send on OPTIONS only
Requests ==
    { rq \in [ method : Methods, path : Paths, origin : BOOLEAN, acrm : BOOLEAN,
               contentType : ContentTypes, acceptGzip : BOOLEAN, body : Bodies ] :
        rq.acrm => rq.method = "OPTIONS" }

NoRequest ==
    [ method |-> "GET", path |-> "/", origin |-> FALSE, acrm |-> FALSE,
      contentType |-> Absent, acceptGzip |-> FALSE, body |-> <<>> ]

NoHeaders == [h \in {} |-> ""]

EmptyBody == [text |-> ""]
NoResponse == [status |-> 0, headers |-> NoHeaders, body |-> EmptyBody, streamed |-> FALSE]
NoExc == [type |-> "none", text |-> "", errors |-> <<>>]
NoResult == [kind |-> "none", resp |-> NoResponse, exc |-> NoExc]

Returned(resp) == [kind |-> "response", resp |-> resp, exc |-> NoExc]
Raised(exc) == [kind |-> "raise", resp |-> NoResponse, exc |-> exc]

Set(headers, k, v) == [h \in DOMAIN headers \cup {k} |-> IF h = k THEN v ELSE headers[h]]

----------------------------------------------------------------------------
(* Pure helpers *)

\* Python's `needle in hay` on strings
Contains(needle, hay) ==
    \E i \in 1..(Len(hay) - Len(needle) + 1) :
        SubSeq(hay, i, i + Len(needle) - 1) = needle

\* request.headers.get("content-type", "")
content_type(rq) == IF rq.contentType = Absent THEN <<>> ELSE rq.contentType

\* slips: PUT and PATCH forgotten; the content type not looked at
SizeLimitApplies_PostOnly(rq) ==
    /\ rq.method \in {"POST"}
    /\ Contains(APPLICATION_JSON, content_type(rq))

SizeLimitApplies_AnyContentType(rq) ==
    rq.method \in {"POST", "PUT", "PATCH"}

\* the two guards of JSONSizeLimitMiddleware.dispatch
SizeLimitApplies(rq) ==
    /\ rq.method \in {"POST", "PUT", "PATCH"}
    /\ Contains(APPLICATION_JSON, content_type(rq))

\* slip: response.headers[k] = v
setdefault_overwrite(headers, k, v) == Set(headers, k, v)

\* response.headers.setdefault(k, v)
setdefault(headers, k, v) == IF k \in DOMAIN headers THEN headers ELSE Set(headers, k, v)

SecurityHeaderNames ==
    { "X-Content-Type-Options", "X-Frame-Options", "X-XSS-Protection",
      "Referrer-Policy", "Permissions-Policy" }

\* the five setdefault calls of SecurityHeadersMiddleware.dispatch
SecurityHeaders(headers) ==
    LET h1 == setdefault(headers, "X-Content-Type-Options", "nosniff")
        h2 == setdefault(h1, "X-Frame-Options", "DENY")
        h3 == setdefault(h2, "X-XSS-Protection", "1; mode=block")
        h4 == setdefault(h3, "Referrer-Policy", "no-referrer")
    IN  setdefault(h4, "Permissions-Policy", "geolocation=()")

JSONHeaders == [h \in {"content-type"} |-> "application/json"]

\* JSONResponse(status_code=..., content=...)
JSONResponse(status_code, content) ==
    [status |-> status_code, headers |-> JSONHeaders, body |-> content, streamed |-> FALSE]

NoDetails == [none |-> TRUE]   \* details=None

\* Python truthiness of `details`: neither None nor an empty dict
Truthy(details) == details # NoDetails /\ DOMAIN details # {}

\* slip: details attached without the `if details:` test
json_error_response_always_details(status_code, message, code, details) ==
    JSONResponse(status_code,
                 [error |-> [message |-> message, code |-> code, details |-> details]])

json_error_response(status_code, message, code, details) ==
    LET payload == [error |-> [message |-> message, code |-> code]]
        withDetails == [error |-> [message |-> message, code |-> code, details |-> details]]
    IN  JSONResponse(status_code, IF Truthy(details) THEN withDetails ELSE payload)

\* slip: the field errors not passed on
validation_exception_handler_no_details(exc) ==
    json_error_response(422, "Validation error", "VALIDATION_ERROR", NoDetails)

validation_exception_handler(exc) ==
    json_error_response(422, "Validation error", "VALIDATION_ERROR", [errors |-> exc.errors])

\* slip: message=str(exc)
unhandled_exception_handler_leaky(exc) ==
    json_error_response(500, exc.text, "INTERNAL_SERVER_ERROR", NoDetails)

unhandled_exception_handler(exc) ==
    json_error_response(500, "Internal server error", "INTERNAL_SERVER_ERROR", NoDetails)

\* the JSONResponse built inline by JSONSizeLimitMiddleware.dispatch
PayloadTooLarge ==
    JSONResponse(413, [error |-> [message |-> "Payload too large",
                                  code |-> "PAYLOAD_TOO_LARGE",
                                  details |-> [limit_bytes |-> self_max_bytes]]])

\* slip: another body
health_check_status_ok == [status |-> "ok"]

health_check == [message |-> "Healthy"]

\* what BaseHTTPMiddleware.call_next hands back: same status, headers and
\* body, as a streaming response
call_next_response(res) ==
    IF res.kind = "response"
    THEN [res EXCEPT !.resp.streamed = TRUE]
    ELSE res

----------------------------------------------------------------------------
(* Framework stages configured by create_app *)

ClientOrigin == "https://client.example"

\* CORSMiddleware(allow_origins=["*"], allow_credentials=True,
\*                allow_methods=["*"], allow_headers=["*"]): the headers of a
\* simple (non-preflight) response
cors_simple_headers(headers) ==
    Set(Set(headers, "Access-Control-Allow-Origin", "*"),
        "Access-Control-Allow-Credentials", "true")

\* ... and its answer to a preflight request
cors_preflight_response ==
    [ status |-> 200,
      headers |-> [h \in {"Access-Control-Allow-Origin", "Access-Control-Allow-Credentials",
                          "Access-Control-Allow-Methods", "Vary", "content-type"} |->
                     CASE h = "Access-Control-Allow-Origin" -> ClientOrigin
                       [] h = "Access-Control-Allow-Credentials" -> "true"
                       [] h = "Access-Control-Allow-Methods" -> "*"
                       [] h = "Vary" -> "Origin"
                       [] h = "content-type" -> "text/plain"],
      body |-> [text |-> "OK"],
      streamed |-> FALSE ]

IsPreflight(rq) == rq.origin /\ rq.method = "OPTIONS" /\ rq.acrm

LargeBody == [blob |-> "large"]

\* byte length of a rendered response body, as far as GZipMiddleware
\* distinguishes it: empty, below minimum_size, at least minimum_size
body_len(body) ==
    IF body = EmptyBody THEN 0
    ELSE IF body = LargeBody THEN minimum_size
    ELSE minimum_size - 1

\* GZipMiddleware(minimum_size=1000) on the first body message of a response:
\* a streaming response (more_body) is compressed whatever its size
gzip_response(rq, resp) ==
    LET more_body == resp.streamed /\ body_len(resp.body) > 0
    IN  IF ~rq.acceptGzip \/ "Content-Encoding" \in DOMAIN resp.headers
        THEN resp
        ELSE IF body_len(resp.body) < minimum_size /\ ~more_body
        THEN resp
        ELSE [resp EXCEPT !.headers = Set(Set(@, "Content-Encoding", "gzip"),
                                          "Vary", "Accept-Encoding"),
                          !.body = [gzip |-> resp.body]]

----------------------------------------------------------------------------
(* Terminal handler inputs *)

CustomHeaders ==
    { JSONHeaders,
      Set(JSONHeaders, "X-Frame-Options", "SAMEORIGIN"),
      Set(Set(Set(JSONHeaders, "X-Frame-Options", "SAMEORIGIN"),
              "Referrer-Policy", "same-origin"), "Cache-Control", "no-store") }

EndpointBodies == { [item |-> 1], EmptyBody, LargeBody }
EndpointStatuses == {200, 404}

FieldErrors ==
    { <<>>,
      << [loc |-> "body.name", msg |-> "field required"] >>,
      << [loc |-> "body.name", msg |-> "field required"],
         [loc |-> "body.age", msg |-> "value is not a valid integer"] >> }

ExceptionTexts == {"division by zero", "db password=hunter2"}

\* await request.body() in the endpoint: through request._receive when the
\* size-limit stage replaced it, else from the ASGI channel
body_as_read(r) ==
    IF receive[r].injected THEN receive[r].body
    ELSE IF stream[r] = "unread" THEN req[r].body
    ELSE <<>>

\* no body read yet (no byte has this value)
Unread == <<-1>>

\* slip: the size limit listed before the logging stage
middlewares_swapped == <<"cors", "gzip", "security", "sizelimit", "logging">>

\* the stack create_app passes to FastAPI(middleware=...), outermost first
middlewares == <<"cors", "gzip", "security", "logging", "sizelimit">>

Index(stage) == CHOOSE i \in 1..Len(middlewares) : middlewares[i] = stage

\* the application a stage wraps, and the one that wraps it
Inner(stage) ==
    IF Index(stage) = Len(middlewares) THEN "handler" ELSE middlewares[Index(stage) + 1]
Outer(stage) ==
    IF stage = "handler" THEN middlewares[Len(middlewares)]
    ELSE IF Index(stage) = 1 THEN "servererror"
    ELSE middlewares[Index(stage) - 1]

Call(stage) == [stage |-> stage, phase |-> "call"]
Ret(stage) == [stage |-> stage, phase |-> "ret"]
New == [stage |-> "server", phase |-> "new"]
Done == [stage |-> "server", phase |-> "done"]

----------------------------------------------------------------------------
\* the application as create_app leaves it, no request received yet
Start ==
    /\ self_max_bytes = max_bytes
    /\ outcome = [r \in AllReqs |-> NoResult]
    /\ pc = [r \in AllReqs |-> New]
    /\ req = [r \in AllReqs |-> NoRequest]
    /\ stream = [r \in AllReqs |-> "unread"]
    /\ cached = [r \in AllReqs |-> Unread]
    /\ receive = [r \in AllReqs |-> [injected |-> FALSE, body |-> <<>>]]
    /\ handlerBody = [r \in AllReqs |-> Unread]
    /\ result = [r \in AllReqs |-> NoResult]
    /\ log = <<>>
    /\ entered = [r \in AllReqs |-> <<>>]
    /\ exited = [r \in AllReqs |-> <<>>]
    /\ raised = [r \in AllReqs |-> NoExc]
    /\ delivered = [r \in AllReqs |-> NoResponse]
    /\ escaped = [r \in AllReqs |-> NoExc]

Init == active = {1} /\ Start

ReadBody(r) ==
    /\ handlerBody' = [handlerBody EXCEPT ![r] = body_as_read(r)]
    /\ stream' = [stream EXCEPT ![r] = IF receive[r].injected THEN @ ELSE "consumed"]

Enter(r, stage) == entered' = [entered EXCEPT ![r] = Append(@, stage)]
Exit(r, stage) == exited' = [exited EXCEPT ![r] = Append(@, stage)]

\* the server hands a request to the application
Receive(r) ==
    /\ r \in active
    /\ pc[r] = New
    /\ \E rq \in Requests : req' = [req EXCEPT ![r] = rq]
    /\ pc' = [pc EXCEPT ![r] = Call(middlewares[1])]
    /\ UNCHANGED <<active, self_max_bytes, stream, cached, receive, handlerBody, result, log,
                   entered, exited, raised, outcome, delivered, escaped>>

CORSMiddleware_call(r) ==
    /\ pc[r] = Call("cors")
    /\ Enter(r, "cors")
    /\ IF IsPreflight(req[r])
       THEN /\ result' = [result EXCEPT ![r] = Returned(cors_preflight_response)]
            /\ Exit(r, "cors")
            /\ pc' = [pc EXCEPT ![r] = Ret(Outer("cors"))]
       ELSE /\ pc' = [pc EXCEPT ![r] = Call(Inner("cors"))]
            /\ UNCHANGED <<result, exited>>
    /\ UNCHANGED <<active, self_max_bytes, req, stream, cached, receive, handlerBody, log,
                   raised, outcome, delivered, escaped>>

GZipMiddleware_call(r) ==
    /\ pc[r] = Call("gzip")
    /\ Enter(r, "gzip")
    /\ pc' = [pc EXCEPT ![r] = Call(Inner("gzip"))]
    /\ UNCHANGED <<active, self_max_bytes, req, stream, cached, receive, handlerBody, result, log,
                   exited, raised, outcome, delivered, escaped>>

\* SecurityHeadersMiddleware.dispatch up to `await call_next(request)`
SecurityHeadersMiddleware_call(r) ==
    /\ pc[r] = Call("security")
    /\ Enter(r, "security")
    /\ pc' = [pc EXCEPT ![r] = Call(Inner("security"))]
    /\ UNCHANGED <<active, self_max_bytes, req, stream, cached, receive, handlerBody, result, log,
                   exited, raised, outcome, delivered, escaped>>

\* RequestLoggingMiddleware.dispatch up to `await call_next(request)`
RequestLoggingMiddleware_call(r) ==
    /\ pc[r] = Call("logging")
    /\ Enter(r, "logging")
    /\ pc' = [pc EXCEPT ![r] = Call(Inner("logging"))]
    /\ UNCHANGED <<active, self_max_bytes, req, stream, cached, receive, handlerBody, result, log,
                   exited, raised, outcome, delivered, escaped>>

\* slip: request._receive left as it was
reinject_forgotten(body) == [injected |-> FALSE, body |-> <<>>]

\* the re-injection at the end of the JSON branch
reinject(body) == [injected |-> TRUE, body |-> body]

\* slip: `raise Exception("Payload too large")` in place of the return
size_limit_rejection_raised ==
    Raised([type |-> "Exception", text |-> "Payload too large", errors |-> <<>>])

\* `return JSONResponse(status_code=413, ...)`: the rejection is a response
\* handed back to the caller, not a failure
size_limit_rejection == Returned(PayloadTooLarge)

\* slip: the length just measured kept on the instance
max_bytes_after_stored(r) == Len(req[r].body)

\* dispatch only reads self.max_bytes; __init__ is its one assignment
max_bytes_after(r) == self_max_bytes

\* `len(body) > self.max_bytes`
too_large(body) == Len(body) > self_max_bytes

\* JSONSizeLimitMiddleware.dispatch up to `await call_next(request)`, or to
\* its `return JSONResponse(status_code=413, ...)`
JSONSizeLimitMiddleware_call(r) ==
    /\ pc[r] = Call("sizelimit")
    /\ Enter(r, "sizelimit")
    /\ IF SizeLimitApplies(req[r])
       THEN LET body == req[r].body IN
            /\ stream' = [stream EXCEPT ![r] = "consumed"]
            /\ cached' = [cached EXCEPT ![r] = body]
            /\ IF too_large(body)
               THEN /\ result' = [result EXCEPT ![r] = size_limit_rejection]
                    /\ Exit(r, "sizelimit")
                    /\ pc' = [pc EXCEPT ![r] = Ret(Outer("sizelimit"))]
                    /\ UNCHANGED receive
               ELSE /\ receive' = [receive EXCEPT ![r] = reinject(body)]
                    /\ pc' = [pc EXCEPT ![r] = Call(Inner("sizelimit"))]
                    /\ UNCHANGED <<result, exited>>
       ELSE /\ pc' = [pc EXCEPT ![r] = Call(Inner("sizelimit"))]
            /\ UNCHANGED <<stream, cached, receive, result, exited>>
    /\ self_max_bytes' = max_bytes_after(r)
    /\ UNCHANGED <<active, req, handlerBody, log, raised, outcome, delivered, escaped>>

----------------------------------------------------------------------------
(* ExceptionMiddleware and the routes *)

\* ExceptionMiddleware holds the handlers registered for anything but
\* Exception: a RequestValidationError becomes a response here, any other
\* failure keeps propagating
\* slip: no handler registered for RequestValidationError
exception_middleware_no_handler(out) == out

exception_middleware(out) ==
    IF out.kind = "raise" /\ out.exc.type = "RequestValidationError"
    THEN Returned(validation_exception_handler(out.exc))
    ELSE out

Finish(r, out) ==
    /\ result' = [result EXCEPT ![r] = exception_middleware(out)]
    /\ entered' = [entered EXCEPT ![r] = Append(@, "handler")]
    /\ exited' = [exited EXCEPT ![r] = Append(@, "handler")]
    /\ raised' = [raised EXCEPT ![r] = out.exc]
    /\ outcome' = [outcome EXCEPT ![r] = out]
    /\ pc' = [pc EXCEPT ![r] = Ret(Outer("handler"))]
    /\ UNCHANGED <<active, self_max_bytes, req, cached, receive, log, delivered, escaped>>

\* @app.get("/"): health_check, which takes no input
HealthCheck(r) ==
    /\ pc[r] = Call("handler")
    /\ req[r].path = "/" /\ req[r].method = "GET"
    /\ Finish(r, Returned(JSONResponse(200, health_check)))
    /\ UNCHANGED <<handlerBody, stream>>

\* any other method on "/": the router answers 405 itself
MethodNotAllowed(r) ==
    /\ pc[r] = Call("handler")
    /\ req[r].path = "/" /\ req[r].method # "GET"
    /\ Finish(r, Returned(JSONResponse(405, [detail |-> "Method Not Allowed"])))
    /\ UNCHANGED <<handlerBody, stream>>

\* an endpoint of the CRUD API this template is to carry: it reads the body
\* and returns a response of its own making
EndpointReturns(r) ==
    /\ pc[r] = Call("handler")
    /\ req[r].path # "/"
    /\ ReadBody(r)
    /\ \E st \in EndpointStatuses, hd \in CustomHeaders, bd \in EndpointBodies :
         Finish(r, Returned([status |-> st, headers |-> hd, body |-> bd,
                             streamed |-> FALSE]))

\* ... or its input fails validation
EndpointRaisesValidationError(r) ==
    /\ pc[r] = Call("handler")
    /\ req[r].path # "/"
    /\ ReadBody(r)
    /\ \E errs \in FieldErrors :
         Finish(r, Raised([type |-> "RequestValidationError", text |-> "", errors |-> errs]))

\* ... or it raises anything else
EndpointRaises(r) ==
    /\ pc[r] = Call("handler")
    /\ req[r].path # "/"
    /\ ReadBody(r)
    /\ \E txt \in ExceptionTexts :
         Finish(r, Raised([type |-> "Exception", text |-> txt, errors |-> <<>>]))

----------------------------------------------------------------------------
(* The way back *)

\* JSONSizeLimitMiddleware.dispatch: `return await call_next(request)`
JSONSizeLimitMiddleware_return(r) ==
    /\ pc[r] = Ret("sizelimit")
    /\ result' = [result EXCEPT ![r] = call_next_response(@)]
    /\ Exit(r, "sizelimit")
    /\ pc' = [pc EXCEPT ![r] = Ret(Outer("sizelimit"))]
    /\ UNCHANGED <<active, self_max_bytes, req, stream, cached, receive, handlerBody, log, entered,
                   raised, outcome, delivered, escaped>>

StatusRecord(r, response) ==
    [req |-> r, kind |-> "status", method |-> req[r].method, path |-> req[r].path,
     status |-> response.status]

FailureRecord(r) ==
    [req |-> r, kind |-> "failure", method |-> req[r].method, path |-> req[r].path,
     status |-> 0]

\* slip: a failure logged like a response
log_record_status_only(r, res) ==
    IF res.kind = "response" THEN StatusRecord(r, res.resp)
    ELSE [FailureRecord(r) EXCEPT !.kind = "status", !.status = 500]

\* the record RequestLoggingMiddleware.dispatch emits: logger.info(...) in
\* the try branch, logger.exception(...) in the except branch
log_record(r, res) ==
    IF res.kind = "response" THEN StatusRecord(r, res.resp) ELSE FailureRecord(r)

\* slip: call_next awaited a second time when the first attempt raised
RequestLoggingMiddleware_return_retry(r) ==
    /\ pc[r] = Ret("logging")
    /\ LET res == call_next_response(result[r])
           again == res.kind = "raise" /\ Len(entered[r]) <= Len(middlewares) + 1
       IN  /\ log' = Append(log, log_record(r, res))
           /\ result' = [result EXCEPT ![r] = res]
           /\ pc' = [pc EXCEPT ![r] = IF again THEN Call(Inner("logging"))
                                      ELSE Ret(Outer("logging"))]
    /\ Exit(r, "logging")
    /\ UNCHANGED <<active, self_max_bytes, req, stream, cached, receive, handlerBody,
                   entered, raised, outcome, delivered, escaped>>

\* RequestLoggingMiddleware.dispatch after `await call_next(request)`:
\* log and return the response, or log and re-raise
RequestLoggingMiddleware_return(r) ==
    /\ pc[r] = Ret("logging")
    /\ LET res == call_next_response(result[r]) IN
         /\ log' = Append(log, log_record(r, res))
         /\ result' = [result EXCEPT ![r] = res]
    /\ Exit(r, "logging")
    /\ pc' = [pc EXCEPT ![r] = Ret(Outer("logging"))]
    /\ UNCHANGED <<active, self_max_bytes, req, stream, cached, receive, handlerBody, entered,
                   raised, outcome, delivered, escaped>>

\* SecurityHeadersMiddleware.dispatch after `await call_next(request)`; a
\* failure raised by call_next leaves the coroutine at the await
SecurityHeadersMiddleware_return(r) ==
    /\ pc[r] = Ret("security")
    /\ LET res == call_next_response(result[r]) IN
         result' = [result EXCEPT ![r] =
                      IF res.kind = "response"
                      THEN [res EXCEPT !.resp.headers = SecurityHeaders(@)]
                      ELSE res]
    /\ Exit(r, "security")
    /\ pc' = [pc EXCEPT ![r] = Ret(Outer("security"))]
    /\ UNCHANGED <<active, self_max_bytes, req, stream, cached, receive, handlerBody, log, entered,
                   raised, outcome, delivered, escaped>>

GZipMiddleware_return(r) ==
    /\ pc[r] = Ret("gzip")
    /\ result' = [result EXCEPT ![r] =
                    IF @.kind = "response"
                    THEN [@ EXCEPT !.resp = gzip_response(req[r], @)]
                    ELSE @]
    /\ Exit(r, "gzip")
    /\ pc' = [pc EXCEPT ![r] = Ret(Outer("gzip"))]
    /\ UNCHANGED <<active, self_max_bytes, req, stream, cached, receive, handlerBody, log, entered,
                   raised, outcome, delivered, escaped>>

\* CORSMiddleware adds its headers as the response starts, and only to a
\* request that carries an Origin header
CORSMiddleware_return(r) ==
    /\ pc[r] = Ret("cors")
    /\ result' = [result EXCEPT ![r] =
                    IF @.kind = "response" /\ req[r].origin
                    THEN [@ EXCEPT !.resp.headers = cors_simple_headers(@)]
                    ELSE @]
    /\ Exit(r, "cors")
    /\ pc' = [pc EXCEPT ![r] = Ret(Outer("cors"))]
    /\ UNCHANGED <<active, self_max_bytes, req, stream, cached, receive, handlerBody, log, entered,
                   raised, outcome, delivered, escaped>>

\* ServerErrorMiddleware, outside every configured stage, holds the handler
\* registered for Exception: it sends that handler's response and raises
\* the failure on to the server
error_translator(res) ==
    IF res.kind = "raise" THEN unhandled_exception_handler(res.exc) ELSE res.resp

ServerErrorMiddleware_return(r) ==
    /\ pc[r] = Ret("servererror")
    /\ delivered' = [delivered EXCEPT ![r] = error_translator(result[r])]
    /\ escaped' = [escaped EXCEPT ![r] = result[r].exc]
    /\ pc' = [pc EXCEPT ![r] = Done]
    /\ UNCHANGED <<active, self_max_bytes, req, stream, cached, receive, handlerBody, result, log,
                   entered, exited, raised, outcome>>

Next ==
    \E r \in AllReqs :
        \/ Receive(r)
        \/ CORSMiddleware_call(r)
        \/ GZipMiddleware_call(r)
        \/ SecurityHeadersMiddleware_call(r)
        \/ RequestLoggingMiddleware_call(r)
        \/ JSONSizeLimitMiddleware_call(r)
        \/ HealthCheck(r)
        \/ MethodNotAllowed(r)
        \/ EndpointReturns(r)
        \/ EndpointRaisesValidationError(r)
        \/ EndpointRaises(r)
        \/ JSONSizeLimitMiddleware_return(r)
        \/ RequestLoggingMiddleware_return(r)
        \/ SecurityHeadersMiddleware_return(r)
        \/ GZipMiddleware_return(r)
        \/ CORSMiddleware_return(r)
        \/ ServerErrorMiddleware_return(r)

Spec == Init /\ [][Next]_vars

----------------------------------------------------------------------------
(* Several requests in flight: the event loop runs one coroutine until its   *)
(* next await, then any other, so the steps of different requests interleave *)
(* in any order.                                                             *)

SomeBody(n) == [i \in 1..n |-> i % 2]

\* one request of each kind the stages tell apart
ConcRequests ==
    { [NoRequest EXCEPT !.acceptGzip = TRUE],
      [NoRequest EXCEPT !.method = "PUT", !.contentType = TEXT_PLAIN],
      [NoRequest EXCEPT !.method = "OPTIONS", !.origin = TRUE, !.acrm = TRUE],
      [NoRequest EXCEPT !.method = "POST", !.path = "/items",
                        !.contentType = APPLICATION_JSON,
                        !.body = SomeBody(max_bytes + 1)],
      [NoRequest EXCEPT !.method = "POST", !.path = "/items", !.origin = TRUE,
                        !.acceptGzip = TRUE, !.contentType = APPLICATION_JSON,
                        !.body = SomeBody(max_bytes)] }

InitConc == active = {1, 2} /\ Start

ReceiveConc(r) ==
    /\ r \in active
    /\ pc[r] = New
    /\ \E rq \in ConcRequests : req' = [req EXCEPT ![r] = rq]
    /\ pc' = [pc EXCEPT ![r] = Call(middlewares[1])]
    /\ UNCHANGED <<active, self_max_bytes, stream, cached, receive, handlerBody, result,
                   log, entered, exited, raised, outcome, delivered, escaped>>

NextConc ==
    \E r \in AllReqs :
        \/ ReceiveConc(r)
        \/ CORSMiddleware_call(r)
        \/ GZipMiddleware_call(r)
        \/ SecurityHeadersMiddleware_call(r)
        \/ RequestLoggingMiddleware_call(r)
        \/ JSONSizeLimitMiddleware_call(r)
        \/ HealthCheck(r)
        \/ MethodNotAllowed(r)
        \/ EndpointReturns(r)
        \/ EndpointRaisesValidationError(r)
        \/ EndpointRaises(r)
        \/ JSONSizeLimitMiddleware_return(r)
        \/ RequestLoggingMiddleware_return(r)
        \/ SecurityHeadersMiddleware_return(r)
        \/ GZipMiddleware_return(r)
        \/ CORSMiddleware_return(r)
        \/ ServerErrorMiddleware_return(r)

SpecConc == InitConc /\ [][NextConc]_vars

----------------------------------------------------------------------------
(* Termination: no stage looks at the bytes of a body, only at its length,   *)
(* so one body of each length stands for the others; and the event loop     *)
(* resumes a coroutine that can run.                                         *)

SizedRequests == {rq \in Requests : rq.body = SomeBody(Len(rq.body))}

ReceiveSized(r) ==
    /\ r \in active
    /\ pc[r] = New
    /\ \E rq \in SizedRequests : req' = [req EXCEPT ![r] = rq]
    /\ pc' = [pc EXCEPT ![r] = Call(middlewares[1])]
    /\ UNCHANGED <<active, self_max_bytes, stream, cached, receive, handlerBody, result,
                   log, entered, exited, raised, outcome, delivered, escaped>>

NextSized ==
    \E r \in AllReqs :
        \/ ReceiveSized(r)
        \/ CORSMiddleware_call(r)
        \/ GZipMiddleware_call(r)
        \/ SecurityHeadersMiddleware_call(r)
        \/ RequestLoggingMiddleware_call(r)
        \/ JSONSizeLimitMiddleware_call(r)
        \/ HealthCheck(r)
        \/ MethodNotAllowed(r)
        \/ EndpointReturns(r)
        \/ EndpointRaisesValidationError(r)
        \/ EndpointRaises(r)
        \/ JSONSizeLimitMiddleware_return(r)
        \/ RequestLoggingMiddleware_return(r)
        \/ SecurityHeadersMiddleware_return(r)
        \/ GZipMiddleware_return(r)
        \/ CORSMiddleware_return(r)
        \/ ServerErrorMiddleware_return(r)

SpecFair == Init /\ [][NextSized]_vars /\ WF_vars(NextSized)

----------------------------------------------------------------------------
(* Vocabulary of the properties *)

Range(f) == {f[i] : i \in DOMAIN f}
Reverse(q) == [i \in 1..Len(q) |-> q[Len(q) + 1 - i]]
IsPrefix(p, q) == Len(p) <= Len(q) /\ SubSeq(q, 1, Len(p)) = p
Suffix(q, n) == SubSeq(q, Len(q) - n + 1, Len(q))

\* the body a client sees once it has undone the content encoding
Payload(resp) == IF "gzip" \in DOMAIN resp.body THEN resp.body.gzip ELSE resp.body

HasHeaders(resp, names) == names \subseteq DOMAIN resp.headers

LogOf(r) == SelectSeq(log, LAMBDA rec : rec.req = r)

\* the hardening headers and their fixed values
SecurityDefault(k) ==
    CASE k = "X-Content-Type-Options" -> "nosniff"
      [] k = "X-Frame-Options" -> "DENY"
      [] k = "X-XSS-Protection" -> "1; mode=block"
      [] k = "Referrer-Policy" -> "no-referrer"
      [] k = "Permissions-Policy" -> "geolocation=()"

StageOrder == <<"cors", "gzip", "security", "logging", "sizelimit", "handler">>

\* the requests the size limit is for, spelt out
IsJsonWrite(rq) ==
    /\ rq.method \in {"POST", "PUT", "PATCH"}
    /\ rq.contentType \in {APPLICATION_JSON, APPLICATION_JSON \o CHARSET}

TooLargeBody == [error |-> [message |-> "Payload too large", code |-> "PAYLOAD_TOO_LARGE",
                            details |-> [limit_bytes |-> max_bytes]]]
InternalErrorBody == [error |-> [message |-> "Internal server error",
                                 code |-> "INTERNAL_SERVER_ERROR"]]
ValidationErrorBody(errs) ==
    [error |-> [message |-> "Validation error", code |-> "VALIDATION_ERROR",
                details |-> [errors |-> errs]]]

PastSizeLimit(r) == "sizelimit" \in Range(entered[r]) /\ pc[r] # Call("sizelimit")

----------------------------------------------------------------------------
\* C1: every response delivered to the client, whatever the outcome (handler
\* response, 413, 422, 500), carries Access-Control-Allow-Origin and the five
\* security headers.  Stated for the requests CORS headers exist for, those
\* that carry an Origin header and are not a preflight.
C1_EveryResponseCarriesHeaders ==
    \A r \in AllReqs :
        (pc[r] = Done /\ req[r].origin /\ ~IsPreflight(req[r]))
            => HasHeaders(delivered[r], {"Access-Control-Allow-Origin"} \cup SecurityHeaderNames)

\* C2: a POST, PUT or PATCH with a JSON content type and a body longer than
\* the limit is answered by the size-limit stage with 413 PAYLOAD_TOO_LARGE
\* and details.limit_bytes = the limit, and the terminal handler never runs.
C2_PayloadTooLarge ==
    \A r \in AllReqs :
        (IsJsonWrite(req[r]) /\ Len(req[r].body) > max_bytes /\ PastSizeLimit(r))
            => /\ "handler" \notin Range(entered[r])
               /\ handlerBody[r] = Unread
               /\ result[r].kind = "response"
               /\ result[r].resp.status = 413
               /\ Payload(result[r].resp).error.code = "PAYLOAD_TOO_LARGE"
               /\ Payload(result[r].resp).error.details.limit_bytes = max_bytes
               /\ Payload(result[r].resp) = TooLargeBody
               /\ pc[r] = Done => /\ delivered[r].status = 413
                                  /\ Payload(delivered[r]) = TooLargeBody

C2_Witness ==
    \E r \in AllReqs :
        /\ pc[r] = Done
        /\ req[r].method = "PATCH"
        /\ Len(req[r].body) = max_bytes + 1
        /\ delivered[r].status = 413

\* C3: a POST, PUT or PATCH with a JSON content type and a body no longer
\* than the limit is passed on by the size-limit stage, which has read the
\* whole body, and the terminal handler reads the very bytes the client sent.
C3_BodyReachesHandlerUnchanged ==
    \A r \in AllReqs :
        (IsJsonWrite(req[r]) /\ Len(req[r].body) <= max_bytes /\ PastSizeLimit(r))
            => /\ cached[r] = req[r].body
               /\ stream[r] = "consumed"
               /\ pc[r] = Call("handler") \/ "handler" \in Range(entered[r])
               /\ pc[r] = Call("handler") => body_as_read(r) = req[r].body
               /\ handlerBody[r] # Unread => handlerBody[r] = req[r].body
               /\ (pc[r] = Done /\ req[r].path # "/") => handlerBody[r] = req[r].body

C3_Witness ==
    \E r \in AllReqs :
        /\ pc[r] = Done
        /\ IsJsonWrite(req[r])
        /\ Len(req[r].body) = max_bytes
        /\ cached[r] = req[r].body
        /\ handlerBody[r] = req[r].body

C5_ValidationFailureIs422 ==
    \A r \in AllReqs :
        raised[r].type = "RequestValidationError"
            => /\ result[r].kind = "response"
               /\ result[r].resp.status = 422
               /\ Payload(result[r].resp) = ValidationErrorBody(raised[r].errors)
               /\ pc[r] = Done
                    => /\ delivered[r].status = 422
                       /\ Payload(delivered[r]) = ValidationErrorBody(raised[r].errors)
                       /\ escaped[r] = NoExc

C5_Witness ==
    \E r \in AllReqs :
        /\ pc[r] = Done
        /\ raised[r].type = "RequestValidationError"
        /\ Len(raised[r].errors) = 2
        /\ delivered[r].status = 422

\* C6: stages are entered in the order CORS, compression, security headers,
\* logging, size limit, terminal handler, and left in the reverse order of
\* their entry: logging is entered before the size check, and the size
\* check before the handler.
C6_StageOrder ==
    \A r \in AllReqs :
        /\ IsPrefix(entered[r], StageOrder)
        /\ Len(exited[r]) <= Len(entered[r])
        /\ exited[r] = Reverse(Suffix(entered[r], Len(exited[r])))
        /\ pc[r] = Done => exited[r] = Reverse(entered[r])
        /\ pc[r] = Call("sizelimit") => "logging" \in Range(entered[r])
        /\ pc[r] = Call("handler") => "sizelimit" \in Range(entered[r])

C6_Witness ==
    \E r \in AllReqs :
        /\ pc[r] = Done
        /\ entered[r] = StageOrder
        /\ exited[r] = Reverse(StageOrder)

\* C7 as stated: for every request the logging stage emits exactly one log
\* record.
C7_OneRecordPerRequest ==
    \A r \in AllReqs : pc[r] = Done => Len(LogOf(r)) = 1

\* C7, amended: for every request that reaches the logging stage, that stage
\* emits exactly one record: a status record with the final status code when
\* the inner chain returned a response (the 413 included), a failure record
\* when it raised, and then the same failure is raised on.  A request the
\* CORS stage answers itself (a preflight) leaves no record.
C7_OneRecordPerLoggedRequest ==
    \A r \in AllReqs :
        /\ Len(LogOf(r)) <= 1
        /\ "logging" \notin Range(exited[r]) => Len(LogOf(r)) = 0
        /\ "logging" \in Range(exited[r])
             => /\ Len(LogOf(r)) = 1
                /\ LogOf(r)[1].method = req[r].method
                /\ LogOf(r)[1].path = req[r].path
                /\ raised[r].type = "Exception"
                     => /\ LogOf(r)[1].kind = "failure"
                        /\ result[r] = Raised(raised[r])
                        /\ pc[r] = Done => escaped[r] = raised[r]
                /\ raised[r].type # "Exception"
                     => /\ LogOf(r)[1].kind = "status"
                        /\ LogOf(r)[1].status = result[r].resp.status
                        /\ pc[r] = Done => LogOf(r)[1].status = delivered[r].status
        /\ (pc[r] = Done /\ "logging" \in Range(entered[r])) => Len(LogOf(r)) = 1

C7_Witness ==
    \E r \in AllReqs :
        /\ pc[r] = Done
        /\ raised[r].type = "Exception"
        /\ Len(LogOf(r)) = 1
        /\ LogOf(r)[1].kind = "failure"
        /\ delivered[r].status = 500

\* C8: the security-headers stage sets each of the five headers only if the
\* response it got back lacks it, keeps a value that is already there, and
\* changes no other header, nor the status, nor the body.
C8_SetIfAbsent ==
    [][ \A r \in AllReqs :
          (pc[r] = Ret("security") /\ pc'[r] # pc[r] /\ result[r].kind = "response")
            => LET before == result[r].resp
                   after == result'[r].resp
               IN  /\ result'[r].kind = "response"
                   /\ DOMAIN after.headers = DOMAIN before.headers \cup SecurityHeaderNames
                   /\ \A h \in SecurityHeaderNames :
                        after.headers[h] = IF h \in DOMAIN before.headers
                                           THEN before.headers[h]
                                           ELSE SecurityDefault(h)
                   /\ \A h \in DOMAIN before.headers : after.headers[h] = before.headers[h]
                   /\ after.status = before.status
                   /\ after.body = before.body ]_vars

C8_Witness ==
    \E r \in AllReqs :
        /\ pc[r] = Ret(Outer("security"))
        /\ result[r].kind = "response"
        /\ result[r].resp.headers["X-Frame-Options"] = "SAMEORIGIN"
        /\ result[r].resp.headers["Referrer-Policy"] = "same-origin"
        /\ result[r].resp.headers["X-Content-Type-Options"] = "nosniff"
        /\ result[r].resp.headers["Cache-Control"] = "no-store"

ErrorStatuses == {413, 422, 500}

\* {error: {message: string, code: string, details?: mapping}}
IsErrorEnvelope(body) ==
    /\ DOMAIN body = {"error"}
    /\ DOMAIN body.error \in {{"message", "code"}, {"message", "code", "details"}}
    /\ body.error.message \in STRING
    /\ body.error.code \in STRING
    /\ "details" \in DOMAIN body.error
         => /\ body.error.details # NoDetails
            /\ DOMAIN body.error.details \in {{"limit_bytes"}, {"errors"}}

\* C9: the body of every 413, 422 and 500 response the program produces has
\* the shape {error: {message, code, details?}}, and details is there only
\* when details were supplied (413: the limit, 422: the field errors).
C9_ErrorEnvelope ==
    \A r \in AllReqs :
        /\ (result[r].kind = "response" /\ result[r].resp.status \in ErrorStatuses)
             => /\ IsErrorEnvelope(Payload(result[r].resp))
                /\ "details" \in DOMAIN Payload(result[r].resp).error
                     <=> result[r].resp.status \in {413, 422}
        /\ delivered[r].status \in ErrorStatuses
             => /\ IsErrorEnvelope(Payload(delivered[r]))
                /\ "details" \in DOMAIN Payload(delivered[r]).error
                     <=> delivered[r].status \in {413, 422}

C9_Witness ==
    \E r \in AllReqs :
        /\ pc[r] = Done
        /\ delivered[r].status = 500
        /\ DOMAIN delivered[r].body.error = {"message", "code"}

\* C10: on a request that is not a POST, PUT or PATCH with a content type
\* containing application/json, the size-limit stage reads no body, never
\* answers 413, and calls the next stage, however long the body is.
C10_OtherRequestsPassThrough ==
    \A r \in AllReqs :
        (~IsJsonWrite(req[r]) /\ PastSizeLimit(r))
            => /\ cached[r] = Unread
               /\ ~receive[r].injected
               /\ "handler" \notin Range(entered[r])
                    => (pc[r] = Call("handler") /\ stream[r] = "unread")
               /\ result[r].resp.status # 413
               /\ delivered[r].status # 413
               /\ handlerBody[r] # Unread => handlerBody[r] = req[r].body

C10_Witness ==
    \E r \in AllReqs :
        /\ pc[r] = Done
        /\ req[r].method = "POST"
        /\ req[r].contentType = TEXT_PLAIN
        /\ Len(req[r].body) = max_bytes + 1
        /\ handlerBody[r] = req[r].body
        /\ delivered[r].status = 200

\* C11: a 413 PAYLOAD_TOO_LARGE response comes only from the size-limit
\* stage, and as a returned response: it is never raised, the enclosing
\* stages see an ordinary response (the logging stage logs status 413, the
\* security stage adds its headers) and the Error Translator never sees it.
C11_413IsReturnedNotRaised ==
    \A r \in AllReqs :
        /\ (result[r].resp.status = 413 \/ delivered[r].status = 413)
             => /\ IsJsonWrite(req[r])
                /\ Len(req[r].body) > max_bytes
                /\ "handler" \notin Range(entered[r])
        /\ (IsJsonWrite(req[r]) /\ Len(req[r].body) > max_bytes /\ PastSizeLimit(r))
             => /\ result[r].kind = "response"
                /\ result[r].resp.status = 413
                /\ raised[r] = NoExc
                /\ escaped[r] = NoExc
                /\ "logging" \in Range(exited[r])
                     => (LogOf(r)[1].kind = "status" /\ LogOf(r)[1].status = 413)
                /\ "security" \in Range(exited[r])
                     => HasHeaders(result[r].resp, SecurityHeaderNames)
                /\ pc[r] = Done => delivered[r] = result[r].resp

C11_Witness ==
    \E r \in AllReqs :
        /\ pc[r] = Done
        /\ delivered[r].status = 413
        /\ Len(LogOf(r)) = 1
        /\ LogOf(r)[1].status = 413
        /\ escaped[r] = NoExc

\* what one request gets when it is the only one: the stages applied one
\* inside the other to the request and to what its route did
AloneInner(rq, out) ==
    IF IsJsonWrite(rq) /\ Len(rq.body) > max_bytes
    THEN Returned(JSONResponse(413, TooLargeBody))
    ELSE call_next_response(exception_middleware(out))

AloneOuter(rq, out) ==
    LET logged == call_next_response(AloneInner(rq, out))
        secured == IF logged.kind = "response"
                   THEN [logged EXCEPT !.resp.headers = SecurityHeaders(@)]
                   ELSE logged
        zipped == IF secured.kind = "response"
                  THEN [secured EXCEPT !.resp = gzip_response(rq, @)]
                  ELSE secured
    IN  IF zipped.kind = "response" /\ rq.origin
        THEN [zipped EXCEPT !.resp.headers = cors_simple_headers(@)]
        ELSE zipped

AloneResponse(rq, out) ==
    IF IsPreflight(rq) THEN cors_preflight_response
    ELSE error_translator(AloneOuter(rq, out))

AloneLog(r, rq, out) ==
    IF IsPreflight(rq) THEN <<>>
    ELSE << log_record(r, call_next_response(AloneInner(rq, out))) >>

\* C12: requests in flight together share no mutable state: however their
\* steps interleave, each gets the response and the log record it would get
\* alone, its handler reads its own body, and the stage configuration
\* (self.max_bytes) stays what __init__ made it.
C12_NoInterference ==
    \A r \in AllReqs :
        /\ self_max_bytes = max_bytes
        /\ handlerBody[r] \in {Unread, req[r].body}
        /\ \A i \in 1..Len(LogOf(r)) :
             /\ LogOf(r)[i].method = req[r].method
             /\ LogOf(r)[i].path = req[r].path
        /\ pc[r] = Done
             => /\ delivered[r] = AloneResponse(req[r], outcome[r])
                /\ LogOf(r) = AloneLog(r, req[r], outcome[r])

\* both served, the second overtaking the first, one rejected and one failed
C12_Witness ==
    /\ pc[1] = Done /\ pc[2] = Done
    /\ Len(log) = 2
    /\ log[1].req = 2 /\ log[2].req = 1
    /\ delivered[1].status = 413
    /\ delivered[2].status = 500

\* C13: the compression stage compresses the body and adds a
\* content-encoding header when the body is at least minimum_size bytes long
\* and the client accepts gzip; a body shorter than minimum_size is passed on
\* byte for byte, with no content-encoding header added.
C13_CompressionThreshold ==
    [][ \A r \in AllReqs :
          (pc[r] = Ret("gzip") /\ pc'[r] # pc[r] /\ result[r].kind = "response")
            => LET before == result[r].resp
                   after == result'[r].resp
               IN  /\ (body_len(before.body) >= minimum_size /\ req[r].acceptGzip)
                        => /\ after.body = [gzip |-> before.body]
                           /\ "Content-Encoding" \in DOMAIN after.headers
                   /\ body_len(before.body) < minimum_size
                        => /\ after.body = before.body
                           /\ after.headers = before.headers ]_vars

\* C14: GET / goes through every stage, none answering in the handler's
\* place, and gets 200 with {"message": "Healthy"}; the handler reads no
\* input and leaves no state changed.
C14_HealthCheck ==
    \A r \in AllReqs :
        (pc[r] = Done /\ req[r].method = "GET" /\ req[r].path = "/")
            => /\ entered[r] = StageOrder
               /\ exited[r] = Reverse(StageOrder)
               /\ delivered[r].status = 200
               /\ Payload(delivered[r]) = [message |-> "Healthy"]
               /\ handlerBody[r] = Unread
               /\ stream[r] = "unread"
               /\ cached[r] = Unread
               /\ raised[r] = NoExc
               /\ escaped[r] = NoExc
               /\ self_max_bytes = max_bytes

C14_Witness ==
    \E r \in AllReqs :
        /\ pc[r] = Done
        /\ req[r].method = "GET" /\ req[r].path = "/"
        /\ req[r].contentType = APPLICATION_JSON
        /\ Len(req[r].body) = max_bytes + 1
        /\ delivered[r].body = [message |-> "Healthy"]

\* C15: a validation failure becomes the 422 response inside the chain the
\* logging stage wraps: that stage gets a response back and logs a status
\* record with 422; the only failures it sees propagate are the others.
C15_ValidationLoggedAsStatus ==
    \A r \in AllReqs :
        /\ raised[r].type = "RequestValidationError"
             => /\ result[r].kind = "response"
                /\ result[r].resp.status = 422
                /\ "logging" \in Range(exited[r])
                     => /\ Len(LogOf(r)) = 1
                        /\ LogOf(r)[1].kind = "status"
                        /\ LogOf(r)[1].status = 422
        /\ (pc[r] = Ret("logging") /\ result[r].kind = "raise")
             => /\ result[r].exc.type = "Exception"
                /\ raised[r].type = "Exception"
        /\ \A i \in 1..Len(LogOf(r)) :
             LogOf(r)[i].kind = "failure" => raised[r].type = "Exception"

C15_Witness ==
    \E r \in AllReqs :
        /\ pc[r] = Done
        /\ raised[r].type = "RequestValidationError"
        /\ LogOf(r) = << [req |-> r, kind |-> "status", method |-> req[r].method,
                          path |-> req[r].path, status |-> 422] >>

Count(q, x) == Cardinality({i \in DOMAIN q : q[i] = x})

\* how often the stage at position i of the order called the next one
CallsNext(r, i) == Count(entered[r], StageOrder[i + 1])

NothingTwice(r) ==
    /\ \A i \in 1..Len(StageOrder) : Count(entered[r], StageOrder[i]) <= 1
    /\ Len(LogOf(r)) <= 1
    /\ pc[r] # Done => delivered[r] = NoResponse
    /\ pc[r] = Done => delivered[r] # NoResponse

\* C16 as stated: one response per execution, and every stage that runs
\* calls the next one exactly once, but for the size-limit stage on a 413.
C16_EveryStageCallsNextOnce ==
    \A r \in AllReqs :
        /\ NothingTwice(r)
        /\ pc[r] = Done
             => \A i \in 1..Len(middlewares) :
                  StageOrder[i] \in Range(entered[r])
                    => CallsNext(r, i) =
                         IF StageOrder[i] = "sizelimit" /\ delivered[r].status = 413
                         THEN 0 ELSE 1

CallsAsAmended(r) ==
    pc[r] = Done
        => \A i \in 1..Len(middlewares) :
             StageOrder[i] \in Range(entered[r])
               => CallsNext(r, i) =
                    IF \/ StageOrder[i] = "sizelimit" /\ delivered[r].status = 413
                       \/ StageOrder[i] = "cors" /\ IsPreflight(req[r])
                    THEN 0 ELSE 1

\* C16, amended: every execution ends, with exactly one response sent; each
\* stage that runs calls the next one exactly once, but for the size-limit
\* stage on a 413 and the CORS stage on a preflight, which call it not at
\* all; the handler runs at most once, nothing is retried, and nothing
\* happens to a request once its response is sent.
C16_TerminatesWithOneResponse ==
    /\ [](\A r \in AllReqs : NothingTwice(r) /\ CallsAsAmended(r))
    /\ [][\A r \in AllReqs : pc[r] = Done => (pc'[r] = Done /\ delivered'[r] = delivered[r])]_vars
    /\ <>(\A r \in active : pc[r] = Done)

C16_Witness ==
    \E r \in AllReqs :
        /\ pc[r] = Done
        /\ IsPreflight(req[r])
        /\ entered[r] = <<"cors">>
        /\ delivered[r].status = 200

====
